---- MODULE Spec2Model ----
(***************************************************************************)
(* Model of src/script.js: the landing page's effects layer.               *)
(*                                                                         *)
(*   App.start            constructs the four components inside one        *)
(*                        try/catch                                        *)
(*   AnimationManager     reveal-on-intersection, throttled scroll handler *)
(*   CountdownTimer       deadline, per-second refresh, expiry             *)
(*   InteractiveEffects   card hover tilt                                  *)
(*   PerformanceOptimizer preload links, reduced-motion stylesheet         *)
(*                                                                         *)
(* Units: times are milliseconds; opacities are hundredths (0.95 -> 95);   *)
(* parallax offsets are half pixels (speed 0.5 per index step).            *)
(* Button ripple/glow, smooth anchor scrolling, the custom cursor and lazy *)
(* images touch no state that the properties below read and are left out.  *)
(***************************************************************************)
EXTENDS Integers, Sequences, FiniteSets, TLC

\* ---------------------------------------------------------------- bounds
\* number of reveal targets matched by querySelectorAll (document order 1..n)
NumTargets == 2
\* IntersectionObserver entries that may be queued before a notification
MaxQueue == 3
\* how many times the expiry render may run before the model stops counting
MaxRenders == 3
\* pending 150 ms text replacements
MaxPending == 4
\* scroll events counted inside one throttle interval
MaxEvents == 3
\* number of .floating-shape elements
NumShapes == 2
\* largest whole-day part of the deltas given to calculateTimeUnits
MaxDays == 3

\* ------------------------------------------------------ program constants
countdownDays == 3
animationDuration == 600
throttleLimit == 16
replaceDelay == 150
tickPeriod == 1000
MsPerSecond == 1000
MsPerMinute == 1000 * 60
MsPerHour == 1000 * 60 * 60
MsPerDay == 1000 * 60 * 60 * 24

Min(a, b) == IF a < b THEN a ELSE b
Max(a, b) == IF a > b THEN a ELSE b

\* ------------------------------------------------------------ utils.padZero
\* String(num): the decimal digits of a non-negative integer, most
\* significant first.
RECURSIVE String(_)
String(num) ==
    IF num < 10 THEN <<num>> ELSE String(num \div 10) \o <<num % 10>>

\* s.padStart(len, '0')
RECURSIVE padStart(_, _)
padStart(s, len) ==
    IF Len(s) >= len THEN s ELSE padStart(<<0>> \o s, len)

padZero(num) == padStart(String(num), 2)

\* ------------------------------------------- CountdownTimer: pure parts
Units == <<"days", "hours", "minutes", "seconds">>
UnitSet == {"days", "hours", "minutes", "seconds"}

\* the value of timeUnits before any refresh computed one
NoUnits == [days |-> -1, hours |-> -1, minutes |-> -1, seconds |-> -1]

calculateTimeUnits_secondsTypo(distance) ==
    [days    |-> distance \div MsPerDay,
     hours   |-> (distance % MsPerDay) \div MsPerHour,
     minutes |-> (distance % MsPerHour) \div MsPerMinute,
     seconds |-> (distance % MsPerMinute) \div MsPerMinute]

calculateTimeUnits_noModulo(distance) ==
    [days    |-> distance \div MsPerDay,
     hours   |-> distance \div MsPerHour,
     minutes |-> (distance % MsPerHour) \div MsPerMinute,
     seconds |-> (distance % MsPerMinute) \div MsPerSecond]

\* Math.floor(distance / d) and distance % d on a non-negative distance
calculateTimeUnits(distance) ==
    [days    |-> distance \div MsPerDay,
     hours   |-> (distance % MsPerDay) \div MsPerHour,
     minutes |-> (distance % MsPerHour) \div MsPerMinute,
     seconds |-> (distance % MsPerMinute) \div MsPerSecond]

\* updateDisplay: if (distance < 0)
isExpired(distance) == distance < 0

\* clearInterval(id): the platform forgets the timer; null (0) and unknown
\* ids are ignored.
clearInterval(active, id) == active \ {id}


\* ------------------------------------------------------------- the state
VARIABLES
    \* App
    started,          \* App.start has run
    components,       \* keys of this.components
    fault,            \* which constructor threw during start ("none" if none)
    log,              \* console diagnostics, in order: "success" / "failure"
    bodyClasses,      \* document.body.classList
    head,             \* elements appended to document.head, in order
    \* CountdownTimer and the platform's interval table
    now,              \* the last reading of new Date().getTime()
    endDate,          \* this.endDate (0 before construction)
    interval,         \* this.interval: 0 is null, otherwise the timer id
    activeIntervals,  \* ids of the recurring timers the platform still fires
    container,        \* #timer: "absent", "timer" (the markup) or "expired"
    elements,         \* which of #days #hours #minutes #seconds exist
    text,             \* textContent of each number element
    pulse,            \* number elements styled scale(1.1) / #f5576c
    pending,          \* scheduled text replacements, in scheduling order
    urgent,           \* #timer carries the class 'urgent'
    timeUnits,        \* the timeUnits of the last refresh that computed them
    expiryRenders,    \* how many times the expiry markup was written
    \* AnimationManager: reveal
    style,            \* inline style of each reveal target
    observed,         \* the observer's observation targets
    prevIdx,          \* per target: -1 never computed, 0 outside, 1 intersecting
    queue,            \* the observer's queued entries
    animated,         \* how many times animateElement ran on each target
    hovered,          \* cards the pointer is over
    \* AnimationManager: scroll
    scrollY,          \* window.scrollY
    inThrottle,       \* throttle's closure variable
    throttleTimers,   \* remaining ms of each pending setTimeout of throttle
    navbar,           \* .navbar style: background opacity and blur radius
    indicator,        \* .scroll-indicator opacity
    shapes,           \* parallax offset of each floating shape
    navbarPresent,    \* the document has a .navbar
    indicatorPresent, \* the document has a .scroll-indicator
    sinceExec,        \* ms since the handler body last ran (-1 never, capped)
    lastGap,          \* ms between the last two runs of the body (-1, capped)
    intervalEvents,   \* scroll events since the throttle interval opened
    intervalExecs,    \* runs of the body since the throttle interval opened
    \* calculateTimeUnits applied to a free input
    ms,
    units

appVars == <<started, components, fault, log, bodyClasses>>
timerVars == <<now, endDate, interval, activeIntervals, container, elements,
               text, pulse, pending, urgent, timeUnits, expiryRenders>>
revealVars == <<style, observed, prevIdx, queue, animated, hovered>>
scrollVars == <<scrollY, inThrottle, throttleTimers, navbar, indicator, shapes,
                navbarPresent, indicatorPresent, sinceExec, lastGap,
                intervalEvents, intervalExecs>>
unitVars == <<ms, units>>
vars == <<appVars, head, timerVars, revealVars, scrollVars, unitVars>>

\* ------------------------------------------- CountdownTimer: operations
\* The part of the state a refresh may change, as one record.
TimerState ==
    [interval |-> interval, activeIntervals |-> activeIntervals,
     container |-> container, elements |-> elements, text |-> text,
     pulse |-> pulse, pending |-> pending, urgent |-> urgent,
     timeUnits |-> timeUnits, expiryRenders |-> expiryRenders, head |-> head]

TimerAssign(W) ==
    /\ interval' = W.interval
    /\ activeIntervals' = W.activeIntervals
    /\ container' = W.container
    /\ elements' = W.elements
    /\ text' = W.text
    /\ pulse' = W.pulse
    /\ pending' = W.pending
    /\ urgent' = W.urgent
    /\ timeUnits' = W.timeUnits
    /\ expiryRenders' = W.expiryRenders
    /\ head' = W.head

\* handleExpiration: clearInterval, replace the container's content, append
\* the expiredBounce stylesheet.
handleExpiration(W) ==
    [W EXCEPT !.activeIntervals = clearInterval(@, W.interval),
              !.container = "expired",
              !.expiryRenders = @ + 1,
              !.head = Append(@, "style expiredBounce")]

\* animateNumberChange: pulse now, replace the text 150 ms later.
animateNumberChange(W, unit, newValue) ==
    [W EXCEPT !.pulse = @ \cup {unit},
              !.pending = Append(@, [unit |-> unit, newValue |-> newValue])]

\* updateElements: Object.keys(timeUnits).forEach, from the i-th key on.
RECURSIVE updateElementsFrom(_, _, _)
updateElementsFrom(i, W, tu) ==
    IF i > Len(Units) THEN W
    ELSE LET unit == Units[i]
             newValue == padZero(tu[unit])
         IN  updateElementsFrom(i + 1,
                 IF unit \in W.elements /\ W.text[unit] # newValue
                 THEN animateNumberChange(W, unit, newValue)
                 ELSE W,
                 tu)

updateElements(W, tu) == updateElementsFrom(1, W, tu)

addPulseEffect(W, tu) ==
    IF tu.days = 0 /\ tu.hours < 24 THEN [W EXCEPT !.urgent = TRUE] ELSE W

\* updateDisplay with the clock reading t and the deadline end.
updateDisplay(W, t, end) ==
    LET distance == end - t
    IN  IF isExpired(distance)
        THEN handleExpiration(W)
        ELSE LET tu == calculateTimeUnits(distance)
             IN  addPulseEffect(updateElements([W EXCEPT !.timeUnits = tu], tu), tu)

\* startCountdown: one refresh, then the recurring timer (id 1) is created.
startCountdown(W, t, end) ==
    LET W1 == updateDisplay(W, t, end)
    IN  [W1 EXCEPT !.interval = 1, !.activeIntervals = @ \cup {1}]

addVisualEffects(W) == [W EXCEPT !.head = Append(@, "style urgentPulse")]

\* new CountdownTimer(): init() does nothing without the container.
newCountdownTimer(W, t, end) ==
    IF W.container = "absent" THEN W
    ELSE addVisualEffects(startCountdown(W, t, end))

\* ------------------------------------------ AnimationManager: reveal
Targets == 1 .. NumTargets
\* targets matching '.stat-card, .chapter-card, .danger-card': the first in
\* document order; the others are highlight boxes and guarantee cards
IsCard(e) == e = 1
Cards == {e \in Targets : IsCard(e)}

NoTransform == [fn |-> "", y |-> 0, rx |-> 0, ry |-> 0]
\* 'translateY(30px)' and 'translateY(0)'
TranslateY(y) == [fn |-> "translateY", y |-> y, rx |-> 0, ry |-> 0]
\* 'translateY(<y>) rotateX(<rx>deg) rotateY(<ry>deg)'
Tilt(y, rx, ry) == [fn |-> "translateY rotateX rotateY", y |-> y, rx |-> rx, ry |-> ry]

NoTransition == [props |-> {}, duration |-> 0]
\* `opacity ${animationDuration}ms ease-out, transform ${animationDuration}ms ease-out`
RevealTransition == [props |-> {"opacity", "transform"}, duration |-> animationDuration]
\* 'transform 0.1s ease-out' and 'transform 0.3s ease-out'
TiltTransition(d) == [props |-> {"transform"}, duration |-> d]

NoStyle ==
    [opacity |-> "", transform |-> NoTransform, transition |-> NoTransition,
     transitionDelay |-> -1]

\* animatedElements.forEach((el, index) => ...): the hidden state
hiddenStyle(index) ==
    [opacity |-> "0", transform |-> TranslateY(30),
     transition |-> RevealTransition, transitionDelay |-> index * 100]

animateElement(st) == [st EXCEPT !.opacity = "1", !.transform = TranslateY(0)]

unobserve_forgotten(obs, target) == obs

\* observer.unobserve(target)
unobserve(obs, target) == obs \ {target}

\* The observer's callback over one batch of entries, in order.  R holds the
\* styles, the observation targets and the per-target count of reveals.
RECURSIVE intersectionCallback(_, _)
intersectionCallback(entries, R) ==
    IF entries = <<>> THEN R
    ELSE LET entry == Head(entries)
             target == entry.target
         IN  intersectionCallback(Tail(entries),
                 IF entry.isIntersecting
                 THEN [style |-> [R.style EXCEPT ![target] = animateElement(@)],
                       observed |-> unobserve(R.observed, target),
                       animated |-> [R.animated EXCEPT ![target] = @ + 1]]
                 ELSE R)

\* ---------------------------------------- InteractiveEffects: card tilt
addCardTilt(st) == [st EXCEPT !.transition = TiltTransition(100)]

removeCardTilt(st) ==
    [st EXCEPT !.transform = Tilt(0, 0, 0), !.transition = TiltTransition(300)]

\* dx = mouseX - centerX, dy = mouseY - centerY, both multiples of 10 px
updateCardTilt(st, dx, dy) ==
    [st EXCEPT !.transform = Tilt(-10, dy \div 10, (0 - dx) \div 10)]

\* ------------------------------------------ AnimationManager: scroll
Shapes == 1 .. NumShapes
NoNavbar == [background |-> -1, blur |-> -1]

\* Math.min(scrollY / 100, 0.95) in hundredths; blur(20px) past 50
navbarStyle(y) ==
    [background |-> Min(y, 95), blur |-> IF y > 50 THEN 20 ELSE 10]

\* scrollIndicator.style.opacity, hundredths
indicatorStyle(y) == IF y > 100 THEN 0 ELSE 70

\* updateParallax: yPos = scrollY * (index + 1) * 0.5, kept in half pixels;
\* the rotation yPos * 0.1 is a function of yPos.
updateParallax(y) == [i \in Shapes |-> y * i]

throttleAdmits_always(flag) == TRUE

\* throttle: if (!inThrottle)
throttleAdmits(flag) == ~flag


\* throttle's returned function on a scroll event at offset y.  S holds the
\* closure flag, the pending timeouts and the three styles the body writes.
throttledHandleScroll(S, y) ==
    IF throttleAdmits(S.inThrottle)
    THEN [inThrottle |-> TRUE,
          throttleTimers |-> Append(S.throttleTimers, throttleLimit),
          navbar |-> IF navbarPresent THEN navbarStyle(y) ELSE S.navbar,
          indicator |-> IF indicatorPresent THEN indicatorStyle(y) ELSE S.indicator,
          shapes |-> updateParallax(y),
          ran |-> TRUE]
    ELSE [S EXCEPT !.ran = FALSE]

\* ------------------------------------------------------------- App.start
Order == <<"animationManager", "countdownTimer", "interactiveEffects",
           "performanceOptimizer">>
ComponentNames == {Order[i] : i \in 1 .. Len(Order)}
Deadline == countdownDays * 24 * 60 * 60 * 1000

\* the components whose constructors return before the one named f throws
constructedBefore(f) ==
    IF f = "none" THEN ComponentNames
    ELSE {Order[i] : i \in {j \in 1 .. Len(Order) :
                               \E k \in 1 .. Len(Order) : Order[k] = f /\ j < k}}

\* new PerformanceOptimizer(): two preload links, and the reduced-motion
\* stylesheet when the media query matches.
newPerformanceOptimizer(W, reduced) ==
    LET links == W.head \o <<"link capa-sem-fundo.png", "link capa.png">>
    IN  [W EXCEPT !.head = IF reduced THEN Append(links, "style reduced-motion")
                           ELSE links]

\* start() when the constructor named f throws as its first step (f = "none":
\* nothing throws), the first refresh reads the clock at t, and the
\* reduced-motion query answers `reduced`.
Start(f, t, reduced) ==
    /\ ~started
    /\ started' = TRUE
    /\ fault' = f
    /\ LET built == constructedBefore(f)
           W0 == TimerState
           W1 == IF "countdownTimer" \in built
                 THEN newCountdownTimer(W0, t, now + Deadline) ELSE W0
           W2 == IF "performanceOptimizer" \in built
                 THEN newPerformanceOptimizer(W1, reduced) ELSE W1
       IN  /\ components' = built
           /\ TimerAssign(W2)
           /\ endDate' = IF "countdownTimer" \in built THEN now + Deadline ELSE endDate
           /\ now' = IF "countdownTimer" \in built /\ container # "absent" THEN t ELSE now
           /\ IF "animationManager" \in built
              THEN /\ style' = [e \in Targets |-> hiddenStyle(e - 1)]
                   /\ observed' = Targets
              ELSE UNCHANGED <<style, observed>>
           /\ bodyClasses' =
                (IF "performanceOptimizer" \in built /\ reduced
                 THEN {"reduced-motion"} ELSE {})
                \cup (IF f = "none" THEN {"loaded"} ELSE {})
           /\ log' = Append(log, IF f = "none" THEN "success" ELSE "failure")
    /\ UNCHANGED <<prevIdx, queue, animated, hovered, scrollVars, unitVars>>

\* -------------------------------------------------- CountdownTimer steps
\* the recurring timer's callback, reading the clock at t
Tick(t) ==
    /\ interval \in activeIntervals
    /\ LET W == updateDisplay(TimerState, t, endDate)
       IN  /\ W.expiryRenders <= MaxRenders
           /\ Len(W.pending) <= MaxPending
           /\ TimerAssign(W)
    /\ now' = t
    /\ UNCHANGED <<appVars, endDate, revealVars, scrollVars, unitVars>>

\* the oldest setTimeout callback of animateNumberChange
ReplaceText ==
    /\ pending # <<>>
    /\ LET p == Head(pending)
       IN  /\ text' = [text EXCEPT ![p.unit] = p.newValue]
           /\ pulse' = pulse \ {p.unit}
    /\ pending' = Tail(pending)
    /\ UNCHANGED <<appVars, head, now, endDate, interval, activeIntervals,
                   container, elements, urgent, timeUnits, expiryRenders,
                   revealVars, scrollVars, unitVars>>

\* handleExpiration called on the exported instance
\* (window.PlantandoVerdadesApp.components.countdownTimer)
CallHandleExpiration ==
    /\ "countdownTimer" \in components
    /\ container # "absent"
    /\ expiryRenders < MaxRenders
    /\ TimerAssign(handleExpiration(TimerState))
    /\ UNCHANGED <<appVars, now, endDate, revealVars, scrollVars, unitVars>>

\* ---------------------------------------------------------- reveal steps
\* The platform recomputes target e's intersection; a change of its threshold
\* index (always the first computation) queues an entry.
UpdateRendering(e, idx) ==
    /\ e \in observed
    /\ idx # prevIdx[e]
    /\ Len(queue) < MaxQueue
    /\ queue' = Append(queue, [target |-> e, isIntersecting |-> (idx = 1)])
    /\ prevIdx' = [prevIdx EXCEPT ![e] = idx]
    /\ UNCHANGED <<appVars, head, timerVars, style, observed, animated, hovered,
                   scrollVars, unitVars>>

\* The platform delivers every queued entry to the callback in one batch.
Notify ==
    /\ queue # <<>>
    /\ LET R == intersectionCallback(queue,
                    [style |-> style, observed |-> observed, animated |-> animated])
       IN  /\ style' = R.style
           /\ observed' = R.observed
           /\ animated' = R.animated
    /\ queue' = <<>>
    /\ UNCHANGED <<appVars, head, timerVars, prevIdx, hovered, scrollVars, unitVars>>

MouseEnter(c) ==
    /\ "interactiveEffects" \in components
    /\ c \in Cards \ hovered
    /\ hovered' = hovered \cup {c}
    /\ style' = [style EXCEPT ![c] = addCardTilt(@)]
    /\ UNCHANGED <<appVars, head, timerVars, observed, prevIdx, queue, animated,
                   scrollVars, unitVars>>

MouseMove(c, dx, dy) ==
    /\ "interactiveEffects" \in components
    /\ c \in Cards \cap hovered
    /\ style' = [style EXCEPT ![c] = updateCardTilt(@, dx, dy)]
    /\ UNCHANGED <<appVars, head, timerVars, observed, prevIdx, queue, animated,
                   hovered, scrollVars, unitVars>>

MouseLeave(c) ==
    /\ "interactiveEffects" \in components
    /\ c \in Cards \cap hovered
    /\ hovered' = hovered \ {c}
    /\ style' = [style EXCEPT ![c] = removeCardTilt(@)]
    /\ UNCHANGED <<appVars, head, timerVars, observed, prevIdx, queue, animated,
                   scrollVars, unitVars>>

\* ---------------------------------------------------------- scroll steps
\* a scroll event with the window at offset y
Scroll(y) ==
    /\ "animationManager" \in components
    /\ scrollY' = y
    /\ LET S == throttledHandleScroll(
                    [inThrottle |-> inThrottle, throttleTimers |-> throttleTimers,
                     navbar |-> navbar, indicator |-> indicator, shapes |-> shapes,
                     ran |-> FALSE], y)
       IN  /\ inThrottle' = S.inThrottle
           /\ throttleTimers' = S.throttleTimers
           /\ navbar' = S.navbar
           /\ indicator' = S.indicator
           /\ shapes' = S.shapes
           /\ intervalEvents' = Min(MaxEvents, intervalEvents + 1)
           /\ intervalExecs' = IF S.ran THEN Min(MaxEvents, intervalExecs + 1)
                               ELSE intervalExecs
           /\ sinceExec' = IF S.ran THEN 0 ELSE sinceExec
           /\ lastGap' = IF S.ran THEN sinceExec ELSE lastGap
    /\ UNCHANGED <<appVars, head, timerVars, revealVars, navbarPresent,
                   indicatorPresent, unitVars>>

\* d ms pass
Advance(d) ==
    /\ throttleTimers # <<>> \/ (sinceExec >= 0 /\ sinceExec < throttleLimit)
    /\ throttleTimers' = [i \in 1 .. Len(throttleTimers) |->
                             Max(0, throttleTimers[i] - d)]
    /\ sinceExec' = IF sinceExec < 0 THEN sinceExec
                    ELSE Min(throttleLimit, sinceExec + d)
    /\ UNCHANGED <<appVars, head, timerVars, revealVars, scrollY, inThrottle,
                   navbar, indicator, shapes, navbarPresent, indicatorPresent,
                   lastGap, intervalEvents, intervalExecs, unitVars>>

\* setTimeout(() => inThrottle = false, limit) comes due
ThrottleTimeout ==
    /\ throttleTimers # <<>>
    /\ Head(throttleTimers) = 0
    /\ throttleTimers' = Tail(throttleTimers)
    /\ inThrottle' = FALSE
    /\ intervalEvents' = 0
    /\ intervalExecs' = 0
    /\ UNCHANGED <<appVars, head, timerVars, revealVars, scrollY, navbar,
                   indicator, shapes, navbarPresent, indicatorPresent, sinceExec,
                   lastGap, unitVars>>

\* ------------------------------------------------ calculateTimeUnits step
Calculate ==
    /\ units = NoUnits
    /\ units' = calculateTimeUnits(ms)
    /\ UNCHANGED <<appVars, head, timerVars, revealVars, scrollVars, ms>>

\* ------------------------------------------------------- initial states
\* The page before App.start: containers, elementSets, navs and inds are the
\* documents considered, inputs the deltas given to calculateTimeUnits.
InitWith(containers, elementSets, navs, inds, inputs) ==
    /\ started = FALSE
    /\ components = {}
    /\ fault = "none"
    /\ log = <<>>
    /\ bodyClasses = {}
    /\ head = <<>>
    /\ now = 0
    /\ endDate = 0
    /\ interval = 0
    /\ activeIntervals = {}
    /\ container \in containers
    /\ elements \in elementSets
    /\ text = [u \in UnitSet |-> <<0, 0>>]
    /\ pulse = {}
    /\ pending = <<>>
    /\ urgent = FALSE
    /\ timeUnits = NoUnits
    /\ expiryRenders = 0
    /\ style = [e \in Targets |-> NoStyle]
    /\ observed = {}
    /\ prevIdx = [e \in Targets |-> -1]
    /\ queue = <<>>
    /\ animated = [e \in Targets |-> 0]
    /\ hovered = {}
    /\ scrollY = 0
    /\ inThrottle = FALSE
    /\ throttleTimers = <<>>
    /\ navbar = NoNavbar
    /\ indicator = -1
    /\ shapes = [i \in Shapes |-> -1]
    /\ navbarPresent \in navs
    /\ indicatorPresent \in inds
    /\ sinceExec = -1
    /\ lastGap = -1
    /\ intervalEvents = 0
    /\ intervalExecs = 0
    /\ ms \in inputs
    /\ units = NoUnits

\* ----------------------------------------------------- specifications
\* clock readings around the deadline, as distances to it
Distances == {-1000, 0, 61000, Deadline}
Readings == {Deadline - d : d \in Distances}

\* SpecTimer: the countdown under arbitrary clock readings.
InitTimer == InitWith({"absent", "timer"}, {UnitSet, UnitSet \ {"days"}}, {TRUE}, {TRUE}, {0})
StartTimer == \E f \in {"none", "interactiveEffects"}, t \in Readings : Start(f, t, FALSE)
TickAny == \E t \in Readings : Tick(t)
NextTimer == StartTimer \/ TickAny \/ ReplaceText
SpecTimer == InitTimer /\ [][NextTimer]_vars

\* SpecExpire: the same, with handleExpiration also called from outside.
NextExpire == StartTimer \/ TickAny \/ ReplaceText \/ CallHandleExpiration
SpecExpire == InitTimer /\ [][NextExpire]_vars

\* SpecTick: the clock reads the construction time at the first refresh and
\* exactly one second more at every tick; the 150 ms replacements of a tick
\* are done before the next tick is due.
InitTick == InitWith({"timer"}, {UnitSet}, {TRUE}, {TRUE}, {0})
StartTick == Start("none", now, FALSE)
TickSecond == pending = <<>> /\ Tick(now + tickPeriod)
NextTick == StartTick \/ TickSecond \/ ReplaceText
SpecTick == InitTick /\ [][NextTick]_vars

\* SpecUnits: calculateTimeUnits on deltas around every unit boundary.
MsInputs ==
    {d * MsPerDay + h * MsPerHour + m * MsPerMinute + s * MsPerSecond + r :
        d \in 0 .. MaxDays, h \in {0, 1, 23}, m \in {0, 1, 59}, s \in {0, 1, 59},
        r \in {0, 1, 999}}
InitUnits == InitWith({"timer"}, {UnitSet}, {TRUE}, {TRUE}, MsInputs)
NextUnits == Calculate
SpecUnits == InitUnits /\ [][NextUnits]_vars

\* SpecScroll: start with any one constructor failing (or none), then scroll
\* events against the throttle, time passing in 1 ms and 8 ms steps.
ScrollOffsets == {0, 40, 80, 120}
InitScroll == InitWith({"timer"}, {UnitSet}, BOOLEAN, BOOLEAN, {0})
StartScroll == \E f \in ComponentNames \cup {"none"}, r \in BOOLEAN : Start(f, now, r)
ScrollAny == \E y \in ScrollOffsets : Scroll(y)
AdvanceAny == \E d \in {1, 8} : Advance(d)
NextScroll == StartScroll \/ ScrollAny \/ AdvanceAny \/ ThrottleTimeout
SpecScroll == InitScroll /\ [][NextScroll]_vars

\* SpecPage: start with and without the hover handlers, then intersection
\* notifications, card hovering and scrolling.
PointerOffsets == {<<-10, 0>>, <<10, 20>>}
InitPage == InitWith({"timer"}, {UnitSet}, {TRUE}, {TRUE}, {0})
StartPage == \E f \in {"none", "interactiveEffects"} : Start(f, now, FALSE)
UpdateRenderingAny == \E e \in Targets, idx \in {0, 1} : UpdateRendering(e, idx)
MouseEnterAny == \E c \in Cards : MouseEnter(c)
MouseMoveAny == \E c \in Cards, p \in PointerOffsets : MouseMove(c, p[1], p[2])
MouseLeaveAny == \E c \in Cards : MouseLeave(c)
ScrollPage == Scroll(120)
AdvancePage == Advance(throttleLimit)
NextPage ==
    \/ StartPage
    \/ UpdateRenderingAny
    \/ Notify
    \/ MouseEnterAny
    \/ MouseMoveAny
    \/ MouseLeaveAny
    \/ ScrollPage
    \/ AdvancePage
    \/ ThrottleTimeout
SpecPage == InitPage /\ [][NextPage]_vars

Spec == SpecPage


\* ============================================================ properties

\* C1 (SpecTimer): the expiry render happens at most once, and once it has
\* happened the recurring timer is no longer active, so no later tick can
\* fire or change the display.
C1_ExpiryRendersOnce ==
    /\ expiryRenders <= 1
    /\ expiryRenders >= 1 => activeIntervals = {}

\* C2 (SpecUnits): for a delta ms >= 0 the computed fields are the floor
\* quotients of the stated moduli, are non-negative, and their weighted sum
\* is at most ms and more than ms - 1000.
C2_TimeUnitsDecompose ==
    units # NoUnits =>
        LET sum == units.days * 86400000 + units.hours * 3600000
                   + units.minutes * 60000 + units.seconds * 1000
        IN  /\ units.days = ms \div 86400000
            /\ units.hours = (ms % 86400000) \div 3600000
            /\ units.minutes = (ms % 3600000) \div 60000
            /\ units.seconds = (ms % 60000) \div 1000
            /\ units.days >= 0 /\ units.hours >= 0
            /\ units.minutes >= 0 /\ units.seconds >= 0
            /\ sum <= ms /\ ms < sum + 1000

C2_Witness ==
    /\ units # NoUnits
    /\ ms % 1000 = 999
    /\ units.days >= 1 /\ units.hours = 23 /\ units.minutes = 59 /\ units.seconds = 59

\* C3 (SpecScroll): in a throttle interval (from the scroll event that opens
\* it to the timeout that closes it) holding any number of scroll events, the
\* handler body has run exactly once; and two consecutive runs of the body
\* are never less than the limit apart.
C3_OncePerInterval ==
    /\ intervalEvents >= 1 => intervalExecs = 1
    /\ lastGap = -1 \/ lastGap >= throttleLimit

C3_Witness ==
    /\ intervalEvents >= 3
    /\ intervalExecs = 1
    /\ lastGap >= throttleLimit

\* C4 (SpecScroll): once the throttle interval has ended, the navbar, the
\* scroll indicator and the parallax offsets are those computed from the
\* offset of the last scroll event.
C4_LastOffsetShown ==
    (sinceExec >= 0 /\ ~inThrottle /\ throttleTimers = <<>>) =>
        /\ shapes = updateParallax(scrollY)
        /\ navbarPresent => navbar = navbarStyle(scrollY)
        /\ indicatorPresent => indicator = indicatorStyle(scrollY)

\* C5 (SpecPage): a target that an intersection event has revealed is never
\* again in the hidden state (opacity 0 and translateY(30px)) and is no
\* longer observed, whatever intersection, pointer or scroll events follow.
C5_RevealMonotonic ==
    \A e \in Targets :
        animated[e] >= 1 =>
            /\ ~(style[e].opacity = "0" /\ style[e].transform = TranslateY(30))
            /\ e \notin observed

C5_Witness ==
    \E e \in Cards :
        /\ animated[e] >= 1
        /\ style[e].transform = Tilt(0, 0, 0)
        /\ lastGap >= 0

\* C6 (SpecPage): animateElement is applied to each reveal target at most
\* once, however many intersecting entries for it are delivered.
C6_RevealedAtMostOnce == \A e \in Targets : animated[e] <= 1

\* C7 (SpecPage): when one constructor throws during start, exactly one
\* failure diagnostic and no success diagnostic is logged, and every
\* component but the faulty one is constructed.
C7_OnlyFaultyAbsent ==
    (started /\ fault # "none") =>
        /\ log = <<"failure">>
        /\ components = ComponentNames \ {fault}

\* C8 (SpecPage): no pointer handler of InteractiveEffects changes a style
\* property that the reveal set on a card (opacity, transform, transition,
\* transition-delay); a card not yet revealed keeps translateY(30px) and the
\* reveal transition.
C8_HoverLeavesRevealStyle ==
    [][("animationManager" \in components
            /\ (MouseEnterAny \/ MouseMoveAny \/ MouseLeaveAny))
        => style' = style]_vars

\* C9 (SpecExpire): handleExpiration invoked when the recurring timer has
\* already been cancelled leaves the timer handle, the container content and
\* the elements of the document head as they were.
C9_ExpirationIdempotent ==
    [][(interval # 0 /\ interval \notin activeIntervals /\ expiryRenders >= 1
            /\ expiryRenders' = expiryRenders + 1)
        => (interval' = interval /\ activeIntervals' = activeIntervals
            /\ container' = container /\ head' = head)]_vars

\* (days, hours, minutes, seconds) of a before that of b
LexLess(a, b) ==
    \/ a.days < b.days
    \/ a.days = b.days /\ a.hours < b.hours
    \/ a.days = b.days /\ a.hours = b.hours /\ a.minutes < b.minutes
    \/ a.days = b.days /\ a.hours = b.hours /\ a.minutes = b.minutes
       /\ a.seconds < b.seconds

ZeroUnits == [days |-> 0, hours |-> 0, minutes |-> 0, seconds |-> 0]

\* C10 (SpecTick): with the clock one second further at every tick, every
\* tick with a non-negative remainder stays Running and computes a tuple
\* strictly below the previous one; the tick with remainder 0 computes and
\* shows all zeros; the tick with a negative remainder is the one right
\* after (0,0,0,0) and performs the Expired transition.
C10_CountsDownThenExpires ==
    [][/\ now' # now =>
            IF endDate - now' >= 0
            THEN /\ container' = "timer"
                 /\ LexLess(timeUnits', timeUnits)
                 /\ endDate - now' = 0 => timeUnits' = ZeroUnits
            ELSE /\ container = "timer" /\ container' = "expired"
                 /\ timeUnits = ZeroUnits
                 /\ activeIntervals' = {}
       /\ (started' /\ endDate' - now' = 0 /\ pending' = <<>>) =>
            /\ container' = "timer"
            /\ \A u \in UnitSet : text'[u] = <<0, 0>>
      ]_vars

C10_Witness ==
    /\ container = "timer"
    /\ interval \in activeIntervals
    /\ now = 61 * tickPeriod
    /\ timeUnits = [days |-> 2, hours |-> 23, minutes |-> 58, seconds |-> 59]
    /\ pending = <<>>
    /\ text["minutes"] = <<5, 8>>

\* C11 (SpecTimer): while Running, whenever no text replacement is pending,
\* every present field shows the zero-padded value computed by the most
\* recent refresh; and a refresh schedules a replacement for a field only
\* when that value differs from the text shown at that moment.
C11_DisplayCatchesUp ==
    [][/\ (container' = "timer" /\ timeUnits' # NoUnits /\ pending' = <<>>) =>
            \A u \in elements' : text'[u] = padZero(timeUnits'[u])
       /\ \A i \in Len(pending) + 1 .. Len(pending') :
            text[pending'[i].unit] # pending'[i].newValue
      ]_vars

====
